---- MODULE Spec2Model ----
(***************************************************************************)
(* The Random library (src/Random.h).  The header holds the class in two   *)
(* generations that the properties below speak about:                      *)
(*   - the static-engine generation (lines 37-259): class Random over one  *)
(*     `static inline` engine, and SharedRandom, which wraps each base     *)
(*     operation in a lock_guard on one static mutex;                      *)
(*   - the thread-local generation (lines 260-389): class Random whose     *)
(*     engine is a `thread_local` inside GetEngine().                      *)
(* Numbers are scaled: int/unsigned are IntBits wide, a double is a        *)
(* fixed-point number counted in units of 1/RealScale.  The engine is the  *)
(* standard library's; it is modelled as the Lehmer generator              *)
(* minstd_rand0 (x' = 16807 x mod 2^31-1), computed exactly.               *)
(***************************************************************************)
EXTENDS Integers, Sequences, FiniteSets, TLC

\* ------------------------------------------------------------- bounds
NThreads == 2
MaxObjs == 2
MaxCalls == 2
MaxLen == 2
IntBits == 4
RealScale == 4
MaxSharedCalls == 3

Threads == 1..NThreads

\* ------------------------------------------------- machine arithmetic
IntMax == 2^(IntBits - 1) - 1
UIntMax == 2^IntBits - 1
NarrowBits == IntBits - 1

\* unsigned -> int, the conversion of Next's `max` to the parameter type of
\* std::uniform_int_distribution<> (int)
ToInt(u) == IF u > IntMax THEN u - 2^IntBits ELSE u

\* a signed value wrapped into `bits` bits (two's complement)
WrapSigned(v, bits) ==
    LET m == v % (2^bits)
    IN  IF m > 2^(bits - 1) - 1 THEN m - 2^bits ELSE m

\* double -> integer conversion truncates toward zero
Trunc(d) == IF d >= 0 THEN d \div RealScale ELSE -((-d) \div RealScale)

\* element kinds of an ArithmeticRange: int, unsigned, a narrower signed
\* integer, double
Kinds == {"int", "unsigned", "narrow", "double"}

\* `item = <int value>` for an element of the given kind
StoreInt(kind, v) ==
    CASE kind = "int" -> v
      [] kind = "unsigned" -> v % (2^IntBits)
      [] kind = "narrow" -> WrapSigned(v, NarrowBits)
      [] OTHER -> v * RealScale

\* `item = <double value>` for an element of the given kind
StoreReal(kind, d) ==
    CASE kind = "int" -> Trunc(d)
      [] kind = "unsigned" -> Trunc(d)
      [] kind = "narrow" -> Trunc(d)
      [] OTHER -> d

\* the mathematical value of an element, in units of 1/RealScale
ElemValue(kind, e) == IF kind = "double" THEN e ELSE e * RealScale

\* ------------------------------------------------------------- engine
EngineModulus == 2147483647
EngineMultiplier == 16807
DefaultSeed == 1
MtDefaultSeed == 5489
EngineMin == 1
UrngRange == (EngineModulus - 1) - EngineMin

\* engine.seed(s)
Seed(s) == IF s % EngineModulus = 0 THEN 1 ELSE s % EngineModulus

\* one step of the engine (Schrage's form of a*x mod m, free of overflow)
Advance(x) ==
    LET q == EngineModulus \div EngineMultiplier
        r == EngineModulus % EngineMultiplier
        t == EngineMultiplier * (x % q) - r * (x \div q)
    IN  IF t < 0 THEN t + EngineModulus ELSE t

\* the default-constructed `static inline std::default_random_engine _engine`
DefaultEngine == Seed(DefaultSeed)

\* the default-constructed `thread_local Engine engine` of GetEngine()
\* (std::mt19937's default seed; the Lehmer generator stands in for the
\* Mersenne twister, whose 624-word state is outside a finite check)
DefaultLocalEngine == Seed(MtDefaultSeed)

\* ------------------------------------------------------ distributions
RECURSIVE Downscale(_, _, _)
Downscale(e, scaling, past) ==
    LET n == Advance(e)
        ret == n - EngineMin
    IN  IF ret < past THEN [val |-> ret \div scaling, eng |-> n]
        ELSE Downscale(n, scaling, past)

\* std::uniform_int_distribution<>(min, max)(engine), for min <= max:
\* the value drawn and the engine after the draw
IntDistribution(min, max, e) ==
    LET uerange == (max - min) + 1
        scaling == UrngRange \div uerange
        d == Downscale(e, scaling, uerange * scaling)
    IN  [val |-> d.val + min, eng |-> d.eng]

\* std::uniform_real_distribution<>(min, max)(engine): two engine steps make
\* one canonical value in [0,1), here quantised to 1/RealScale
RealDistribution(min, max, e) ==
    LET n1 == Advance(e)
        n2 == Advance(n1)
        bucket == UrngRange \div RealScale + 1
        k == (n2 - EngineMin) \div bucket
    IN  [val |-> min + ((max - min) * k) \div RealScale, eng |-> n2]

\* n draws of a distribution into a range: the loop of Fill
RECURSIVE FillIntLoop(_, _, _, _, _)
FillIntLoop(kind, n, min, max, e) ==
    IF n = 0 THEN [seq |-> << >>, eng |-> e]
    ELSE LET d == IntDistribution(min, max, e)
             rest == FillIntLoop(kind, n - 1, min, max, d.eng)
         IN  [seq |-> <<StoreInt(kind, d.val)>> \o rest.seq, eng |-> rest.eng]

RECURSIVE FillRealLoop(_, _, _, _, _)
FillRealLoop(kind, n, min, max, e) ==
    IF n = 0 THEN [seq |-> << >>, eng |-> e]
    ELSE LET d == RealDistribution(min, max, e)
             rest == FillRealLoop(kind, n - 1, min, max, d.eng)
         IN  [seq |-> <<StoreReal(kind, d.val)>> \o rest.seq, eng |-> rest.eng]

Swap(s, i, j) == [s EXCEPT ![i] = s[j], ![j] = s[i]]

\* std::ranges::shuffle(range, engine): for each position from the second on,
\* swap it with a position drawn uniformly among those up to and including it
RECURSIVE ShuffleLoop(_, _, _)
ShuffleLoop(s, i, e) ==
    IF i > Len(s) THEN [seq |-> s, eng |-> e]
    ELSE LET d == IntDistribution(0, i - 1, e)
         IN  ShuffleLoop(Swap(s, i, d.val + 1), i + 1, d.eng)

\* ------------------------------------------------------------- inputs
\* explicit seeds, and the values std::random_device may deliver
Seeds == {3, 7}
Entropy == {9, 12}
\* `max` of Next: unsigned values on both sides of the largest int
NextMaxes == {0, IntMax - 2, IntMax + 1, UIntMax - 1}
\* (min, max) of NextInt and of Fill's int overload, min <= max
IntBounds == {<<1, IntMax - 1>>, <<-2, 2>>, <<-1, -1>>}
\* (min, max) of NextDouble and of Fill's double overload, in units of
\* 1/RealScale, min <= max
RealBounds == {<<0, RealScale>>, <<RealScale \div 2, RealScale - 1>>, <<-1, 1>>}
\* caller-owned sequences: a range to shuffle, a source of items, a destination
Iota(n) == [i \in 1..n |-> i]
Filled(n, v) == [i \in 1..n |-> v]
Lens == 0..MaxLen
\* what a function that flows off its end without `return` may hand back
DoubleVals == (-RealScale)..(2 * RealScale)

VARIABLES
    tlEngine,   \* thread-local generation: each thread's `thread_local Engine engine`
    tlSeeded,   \* whether seed() was ever called on that thread's engine
    built,      \* thread-local generation: number of Random objects constructed
    last,       \* thread-local generation: the most recent call and its outcome
    calls,      \* number of calls made
    engine,     \* static-engine generation: `static inline ... _engine`
    objs,       \* static-engine generation: the Random objects built, with seeds
    out,        \* per object: the results of its NextInt(DetBounds) calls
    prev,       \* static-engine generation: the most recent call and its outcome
    mutex,      \* SharedRandom::_mutex: 0 when free, else the owning thread
    pc,         \* per thread: where it is inside a SharedRandom call
    cur,        \* per thread: the call it is executing
    snap        \* per thread: the engine state its current draw has read

localVars == <<tlEngine, tlSeeded, built, last>>
staticVars == <<objs, out, prev>>
sharedVars == <<mutex, pc, cur, snap>>
vars == <<tlEngine, tlSeeded, built, last, calls, engine, objs, out, prev,
          mutex, pc, cur, snap>>

NoCall ==
    [op |-> "none", thread |-> 0, obj |-> 0, min |-> 0, max |-> 0, kind |-> "int",
     src |-> << >>, dst |-> << >>, ret |-> << >>, err |-> FALSE,
     seeded |-> FALSE, draws |-> 0, pre |-> 0]

\* ================================================ thread-local generation
\* a variant of GetEngine() whose engine is `static`, not `thread_local`
GetEngineStatic(t) == 1

\* Engine& GetEngine() { thread_local Engine engine; return engine; }:
\* the calling thread's own engine
GetEngine(t) == t

\* the bookkeeping every operation shares: the caller's engine becomes `eng`
\* and the call is logged with the engine it started from
Finish(t, call, eng) ==
    /\ tlEngine' = [tlEngine EXCEPT ![GetEngine(t)] = eng]
    /\ last' = [call EXCEPT !.thread = t,
                            !.seeded = tlSeeded[GetEngine(t)],
                            !.pre = tlEngine[GetEngine(t)]]
    /\ calls' = calls + 1
    /\ UNCHANGED <<tlSeeded, built>>
    /\ UNCHANGED <<engine, staticVars, sharedVars>>

\* a thread can call an operation once some Random object exists (an object
\* has no data members: any thread that can reach it can call it)
CanCall == built > 0 /\ calls < MaxCalls

\* Random() noexcept { GetEngine().seed(std::random_device()()); }
Construct(t) ==
    /\ built < MaxObjs
    /\ \E s \in Entropy :
        tlEngine' = [tlEngine EXCEPT ![GetEngine(t)] = Seed(s)]
    /\ tlSeeded' = [tlSeeded EXCEPT ![GetEngine(t)] = TRUE]
    /\ built' = built + 1
    /\ last' = [NoCall EXCEPT !.op = "Random", !.thread = t,
                              !.pre = tlEngine[GetEngine(t)]]
    /\ UNCHANGED calls
    /\ UNCHANGED <<engine, staticVars, sharedVars>>

\* Random(unsigned int seed) noexcept { GetEngine().seed(seed); }
ConstructSeeded(t, s) ==
    /\ built < MaxObjs
    /\ tlEngine' = [tlEngine EXCEPT ![GetEngine(t)] = Seed(s)]
    /\ tlSeeded' = [tlSeeded EXCEPT ![GetEngine(t)] = TRUE]
    /\ built' = built + 1
    /\ last' = [NoCall EXCEPT !.op = "Random", !.thread = t, !.min = s,
                              !.pre = tlEngine[GetEngine(t)]]
    /\ UNCHANGED calls
    /\ UNCHANGED <<engine, staticVars, sharedVars>>

\* unsigned int Next(unsigned int max): IntDistribution(0, max)(GetEngine()).
\* The distribution's parameters are int: a max above the largest int arrives
\* negative, the distribution's precondition a <= b is broken and the result is
\* undefined: any unsigned value may come back.
Next(t, max) ==
    /\ CanCall
    /\ LET e == tlEngine[GetEngine(t)]
           call == [NoCall EXCEPT !.op = "Next", !.max = max, !.draws = 1]
       IN  IF ToInt(max) >= 0
           THEN LET d == IntDistribution(0, ToInt(max), e)
                IN  Finish(t, [call EXCEPT !.ret = <<d.val % (2^IntBits)>>], d.eng)
           ELSE \E r \in 0..UIntMax :
                    Finish(t, [call EXCEPT !.ret = <<r>>], Advance(e))

\* int NextInt(int min, int max): IntDistribution(min, max)(GetEngine())
NextInt(t, min, max) ==
    /\ CanCall
    /\ LET d == IntDistribution(min, max, tlEngine[GetEngine(t)])
       IN  Finish(t, [NoCall EXCEPT !.op = "NextInt", !.min = min, !.max = max,
                                    !.draws = 1, !.ret = <<d.val>>], d.eng)

\* double NextDouble(double min, double max)
NextDouble(t, min, max) ==
    /\ CanCall
    /\ LET d == RealDistribution(min, max, tlEngine[GetEngine(t)])
       IN  Finish(t, [NoCall EXCEPT !.op = "NextDouble", !.min = min, !.max = max,
                                    !.kind = "double", !.draws = 1,
                                    !.ret = <<d.val>>], d.eng)

\* double NextDouble() { return NextDouble(0.0, 1.0); }
NextDouble0(t) ==
    /\ CanCall
    /\ LET d == RealDistribution(0, RealScale, tlEngine[GetEngine(t)])
       IN  Finish(t, [NoCall EXCEPT !.op = "NextDouble0", !.kind = "double",
                                    !.max = RealScale, !.draws = 1,
                                    !.ret = <<d.val>>], d.eng)

\* void Fill(range, int min, int max): item = IntDistribution(min, max)(engine)
FillInt(t, kind, n, min, max) ==
    /\ CanCall
    /\ LET f == FillIntLoop(kind, n, min, max, tlEngine[GetEngine(t)])
       IN  Finish(t, [NoCall EXCEPT !.op = "FillInt", !.min = min * RealScale,
                                    !.max = max * RealScale, !.kind = kind,
                                    !.src = Filled(n, 0), !.draws = n,
                                    !.ret = f.seq], f.eng)

\* void Fill(range, double min, double max): item = RealDistribution(min, max)(engine)
\* (a negative double stored into an unsigned element is undefined: left out)
FillDouble(t, kind, n, min, max) ==
    /\ CanCall
    /\ kind = "unsigned" => min > -RealScale
    /\ LET f == FillRealLoop(kind, n, min, max, tlEngine[GetEngine(t)])
       IN  Finish(t, [NoCall EXCEPT !.op = "FillDouble", !.min = min, !.max = max,
                                    !.kind = kind, !.src = Filled(n, 0), !.draws = n,
                                    !.ret = f.seq], f.eng)

\* void Fill(range): item = RealDistribution(0, 1)(engine)
FillUnit(t, kind, n) ==
    /\ CanCall
    /\ LET f == FillRealLoop(kind, n, 0, RealScale, tlEngine[GetEngine(t)])
       IN  Finish(t, [NoCall EXCEPT !.op = "FillUnit", !.min = 0, !.max = RealScale,
                                    !.kind = kind, !.src = Filled(n, 0), !.draws = n,
                                    !.ret = f.seq], f.eng)

\* void Shuffle(range): std::ranges::shuffle(range, GetEngine())
Shuffle(t, n) ==
    /\ CanCall
    /\ LET f == ShuffleLoop(Iota(n), 2, tlEngine[GetEngine(t)])
       IN  Finish(t, [NoCall EXCEPT !.op = "Shuffle", !.src = Iota(n),
                                    !.draws = IF n > 1 THEN n - 1 ELSE 0,
                                    !.ret = f.seq], f.eng)

\* n items drawn from a non-empty source, independently and with replacement
RECURSIVE ItemsLoop(_, _, _)
ItemsLoop(src, n, e) ==
    IF n = 0 THEN [seq |-> << >>, eng |-> e]
    ELSE LET d == IntDistribution(0, Len(src) - 1, e)
             rest == ItemsLoop(src, n - 1, d.eng)
         IN  [seq |-> <<src[d.val + 1]>> \o rest.seq, eng |-> rest.eng]

\* getItem(sequence): invalid-argument on an empty sequence, else one item
GetItemResult(src, e) ==
    IF Len(src) = 0 THEN [ret |-> << >>, err |-> TRUE, eng |-> e, draws |-> 0]
    ELSE LET f == ItemsLoop(src, 1, e)
         IN  [ret |-> f.seq, err |-> FALSE, eng |-> f.eng, draws |-> 1]

\* getItems(sequence, count): invalid-argument on an empty source, else
\* `count` items
GetItemsResult(src, n, e) ==
    IF Len(src) = 0 THEN [ret |-> << >>, err |-> TRUE, eng |-> e, draws |-> 0]
    ELSE LET f == ItemsLoop(src, n, e)
         IN  [ret |-> f.seq, err |-> FALSE, eng |-> f.eng, draws |-> n]

\* a variant that empties the destination before it looks at the source
GetItemsIntoClearsFirst(src, dst, e) ==
    IF Len(src) = 0 THEN [ret |-> << >>, err |-> TRUE, eng |-> e, draws |-> 0]
    ELSE LET f == ItemsLoop(src, Len(dst), e)
         IN  [ret |-> f.seq, err |-> FALSE, eng |-> f.eng, draws |-> Len(dst)]

\* getItems(source, destination): invalid-argument on an empty source, before
\* anything is written; else every element of the destination is overwritten
\* with a drawn item (none when the destination is empty)
GetItemsIntoResult(src, dst, e) ==
    IF Len(src) = 0 THEN [ret |-> dst, err |-> TRUE, eng |-> e, draws |-> 0]
    ELSE LET f == ItemsLoop(src, Len(dst), e)
         IN  [ret |-> f.seq, err |-> FALSE, eng |-> f.eng, draws |-> Len(dst)]

\* random.GetItem(choices)
GetItem(t, n) ==
    /\ CanCall
    /\ LET r == GetItemResult(Iota(n), tlEngine[GetEngine(t)])
       IN  Finish(t, [NoCall EXCEPT !.op = "GetItem", !.src = Iota(n),
                                    !.ret = r.ret, !.err = r.err,
                                    !.draws = r.draws], r.eng)

\* random.GetItems(choices, count)
GetItemsCount(t, n, count) ==
    /\ CanCall
    /\ LET r == GetItemsResult(Iota(n), count, tlEngine[GetEngine(t)])
       IN  Finish(t, [NoCall EXCEPT !.op = "GetItemsCount", !.src = Iota(n),
                                    !.max = count, !.ret = r.ret, !.err = r.err,
                                    !.draws = r.draws], r.eng)

\* random.GetItems(choices, destination)
GetItemsInto(t, n, m) ==
    /\ CanCall
    /\ LET r == GetItemsIntoResult(Iota(n), Filled(m, 0), tlEngine[GetEngine(t)])
       IN  Finish(t, [NoCall EXCEPT !.op = "GetItemsInto", !.src = Iota(n),
                                    !.dst = Filled(m, 0), !.ret = r.ret,
                                    !.err = r.err, !.draws = r.draws], r.eng)

\* the operations of the header as any number of threads issue them, one
\* input or two each
NextLocal ==
    \/ \E t \in Threads : Construct(t)
    \/ \E t \in Threads, s \in Seeds : ConstructSeeded(t, s)
    \/ \E t \in Threads : Next(t, IntMax - 2)
    \/ \E t \in Threads : NextInt(t, 1, IntMax - 1)
    \/ \E t \in Threads : NextDouble(t, 0, RealScale)
    \/ \E t \in Threads : NextDouble0(t)
    \/ \E t \in Threads, n \in {0, MaxLen} : FillInt(t, "int", n, -2, 2)
    \/ \E t \in Threads : FillDouble(t, "double", MaxLen, -1, 1)
    \/ \E t \in Threads : FillUnit(t, "double", MaxLen)
    \/ \E t \in Threads, n \in {1, MaxLen} : Shuffle(t, n)

\* the operations as one thread issues them, over the whole of the input sets
NextFn ==
    \/ \E t \in {1} : Construct(t)
    \/ \E t \in {1}, s \in Seeds : ConstructSeeded(t, s)
    \/ \E t \in {1}, m \in NextMaxes : Next(t, m)
    \/ \E t \in {1}, b \in IntBounds : NextInt(t, b[1], b[2])
    \/ \E t \in {1}, b \in RealBounds : NextDouble(t, b[1], b[2])
    \/ \E t \in {1} : NextDouble0(t)
    \/ \E t \in {1}, k \in Kinds, n \in Lens, b \in IntBounds :
          FillInt(t, k, n, b[1], b[2])
    \/ \E t \in {1}, k \in Kinds, n \in Lens, b \in RealBounds :
          FillDouble(t, k, n, b[1], b[2])
    \/ \E t \in {1}, k \in Kinds, n \in Lens : FillUnit(t, k, n)
    \/ \E t \in {1}, n \in Lens : Shuffle(t, n)
    \/ \E t \in {1}, n \in Lens : GetItem(t, n)
    \/ \E t \in {1}, n \in Lens, c \in Lens : GetItemsCount(t, n, c)
    \/ \E t \in {1}, n \in Lens, m \in Lens : GetItemsInto(t, n, m)

\* ----------------------------------------- thread-local generation: claims
DrawOps == {"Next", "NextInt", "NextDouble", "NextDouble0", "FillInt",
            "FillDouble", "FillUnit", "Shuffle"}

\* C4: in the thread-local variant a step taken by one thread (a construction
\* or any operation) reads the engine of that thread only and leaves the
\* engine of every other thread as it was.
C4_ThreadIsolation ==
    [][/\ last'.pre = tlEngine[last'.thread]
       /\ \A u \in Threads :
            u # last'.thread => tlEngine'[u] = tlEngine[u]]_vars

\* C4 witness: a thread has drawn from its engine while another thread's
\* engine, seeded earlier, sits in a different state.
C4_Witness ==
    /\ last.op \in DrawOps /\ last.draws > 0
    /\ \E u \in Threads :
        /\ u # last.thread
        /\ tlSeeded[u]
        /\ tlEngine[u] # tlEngine[last.thread]
        /\ tlEngine[last.thread] # last.pre

\* C6 (as claimed): whatever unsigned max is passed, Next(max) returns r with
\* 0 <= r <= max.
C6_NextWithinMax ==
    last.op = "Next" => (0 <= last.ret[1] /\ last.ret[1] <= last.max)

\* C7 (as claimed): after Fill(range, min, max), whatever the element type,
\* the range has its former length and every element lies in [min, max].
C7_FillWithinBounds ==
    last.op \in {"FillInt", "FillDouble"} =>
        /\ Len(last.ret) = Len(last.src)
        /\ \A i \in 1..Len(last.ret) :
            /\ last.min <= ElemValue(last.kind, last.ret[i])
            /\ ElemValue(last.kind, last.ret[i]) <= last.max

\* C8: GetItem and GetItems on an empty source signal invalid-argument and
\* leave the destination and the engine as they were; GetItems(source,
\* destination) with a non-empty source and an empty destination signals
\* nothing and changes nothing.
C8_EmptySourceAndDestination ==
    /\ (last.op \in {"GetItem", "GetItemsCount", "GetItemsInto"} /\ last.src = << >>) =>
          /\ last.err
          /\ last.ret = last.dst
          /\ tlEngine[last.thread] = last.pre
    /\ (last.op = "GetItemsInto" /\ last.src # << >> /\ last.dst = << >>) =>
          /\ ~last.err
          /\ last.ret = << >>
          /\ tlEngine[last.thread] = last.pre

\* C8 witness: GetItems was called with an empty source and a destination
\* that holds elements.
C8_Witness ==
    /\ last.op = "GetItemsInto"
    /\ last.src = << >>
    /\ last.dst # << >>
    /\ last.err

\* C9 (as claimed): no call that draws does so from an engine on which seed()
\* was never called.
C9_SeededBeforeDraw ==
    (last.op \in DrawOps /\ last.draws > 0) => last.seeded

\* ================================================= static-engine generation
\* class Random over `static inline std::default_random_engine _engine`, used
\* from one thread.
Objects == 1..Len(objs)

\* the bounds of the call whose results the determinism scenario records
DetBounds == <<1, IntMax - 1>>

\* every operation reads and writes the one static engine; the call is logged,
\* and a call other than NextInt(DetBounds) closes the object's record
StaticFinish(o, call, eng) ==
    /\ engine' = eng
    /\ prev' = [call EXCEPT !.obj = o, !.pre = engine]
    /\ calls' = calls + 1
    /\ out' = [out EXCEPT ![o] =
                 IF call.op = "NextInt" /\ <<call.min, call.max>> = DetBounds /\ @.ok
                 THEN [ok |-> TRUE, seq |-> Append(@.seq, call.ret[1])]
                 ELSE [ok |-> FALSE, seq |-> @.seq]]
    /\ UNCHANGED objs
    /\ UNCHANGED <<localVars, sharedVars>>

StaticCanCall(o) == o \in Objects /\ calls < MaxCalls

\* Random() noexcept { _engine.seed(_device()); }
RandomDefault ==
    /\ Len(objs) < MaxObjs
    /\ \E s \in Entropy :
        /\ engine' = Seed(s)
        /\ objs' = Append(objs, [explicit |-> FALSE, seed |-> s])
    /\ prev' = [NoCall EXCEPT !.op = "Random", !.obj = Len(objs) + 1, !.pre = engine]
    /\ UNCHANGED <<out, calls>>
    /\ UNCHANGED <<localVars, sharedVars>>

\* Random(unsigned int seed) noexcept { _engine.seed(seed); }
RandomSeeded(s) ==
    /\ Len(objs) < MaxObjs
    /\ engine' = Seed(s)
    /\ objs' = Append(objs, [explicit |-> TRUE, seed |-> s])
    /\ prev' = [NoCall EXCEPT !.op = "Random", !.obj = Len(objs) + 1, !.min = s,
                              !.pre = engine]
    /\ UNCHANGED <<out, calls>>
    /\ UNCHANGED <<localVars, sharedVars>>

\* unsigned int Next(unsigned int max):
\* std::uniform_int_distribution<>(0, max)(_engine); undefined for a max above
\* the largest int, as in the thread-local generation
RandomNext(o, max) ==
    /\ StaticCanCall(o)
    /\ LET call == [NoCall EXCEPT !.op = "Next", !.max = max, !.draws = 1]
       IN  IF ToInt(max) >= 0
           THEN LET d == IntDistribution(0, ToInt(max), engine)
                IN  StaticFinish(o, [call EXCEPT !.ret = <<d.val % (2^IntBits)>>], d.eng)
           ELSE \E r \in 0..UIntMax :
                    StaticFinish(o, [call EXCEPT !.ret = <<r>>], Advance(engine))

\* int NextInt(int min, int max)
RandomNextInt(o, min, max) ==
    /\ StaticCanCall(o)
    /\ LET d == IntDistribution(min, max, engine)
       IN  StaticFinish(o, [NoCall EXCEPT !.op = "NextInt", !.min = min, !.max = max,
                                          !.draws = 1, !.ret = <<d.val>>], d.eng)

\* double NextDouble(double min, double max)
RandomNextDouble(o, min, max) ==
    /\ StaticCanCall(o)
    /\ LET d == RealDistribution(min, max, engine)
       IN  StaticFinish(o, [NoCall EXCEPT !.op = "NextDouble", !.min = min,
                                          !.max = max, !.kind = "double",
                                          !.draws = 1, !.ret = <<d.val>>], d.eng)

\* double NextDouble() noexcept { NextDouble(0.0, 1.0); }
\* The value drawn is dropped and control flows off the end of a function
\* that returns double: what the caller receives is undefined.
RandomNextDouble0(o) ==
    /\ StaticCanCall(o)
    /\ LET d == RealDistribution(0, RealScale, engine)
       IN  \E r \in DoubleVals :
               StaticFinish(o, [NoCall EXCEPT !.op = "NextDouble0", !.max = RealScale,
                                              !.kind = "double", !.draws = 1,
                                              !.ret = <<r>>], d.eng)

\* void Fill(range, int min, int max)
RandomFillInt(o, kind, n, min, max) ==
    /\ StaticCanCall(o)
    /\ LET f == FillIntLoop(kind, n, min, max, engine)
       IN  StaticFinish(o, [NoCall EXCEPT !.op = "FillInt", !.min = min * RealScale,
                                          !.max = max * RealScale, !.kind = kind,
                                          !.src = Filled(n, 0), !.draws = n,
                                          !.ret = f.seq], f.eng)

\* void Fill(range, double min, double max)
RandomFillDouble(o, kind, n, min, max) ==
    /\ StaticCanCall(o)
    /\ LET f == FillRealLoop(kind, n, min, max, engine)
       IN  StaticFinish(o, [NoCall EXCEPT !.op = "FillDouble", !.min = min,
                                          !.max = max, !.kind = kind,
                                          !.src = Filled(n, 0), !.draws = n,
                                          !.ret = f.seq], f.eng)

\* void Fill(range): std::uniform_real_distribution<>(0, 1)
RandomFillUnit(o, kind, n) ==
    /\ StaticCanCall(o)
    /\ LET f == FillRealLoop(kind, n, 0, RealScale, engine)
       IN  StaticFinish(o, [NoCall EXCEPT !.op = "FillUnit", !.max = RealScale,
                                          !.kind = kind, !.src = Filled(n, 0),
                                          !.draws = n, !.ret = f.seq], f.eng)

\* void Shuffle(range): std::ranges::shuffle(range, _engine)
RandomShuffle(o, n) ==
    /\ StaticCanCall(o)
    /\ LET f == ShuffleLoop(Iota(n), 2, engine)
       IN  StaticFinish(o, [NoCall EXCEPT !.op = "Shuffle", !.src = Iota(n),
                                          !.draws = IF n > 1 THEN n - 1 ELSE 0,
                                          !.ret = f.seq], f.eng)

NextStatic ==
    \/ RandomDefault
    \/ \E s \in Seeds : RandomSeeded(s)
    \/ \E o \in Objects, m \in NextMaxes : RandomNext(o, m)
    \/ \E o \in Objects, b \in IntBounds : RandomNextInt(o, b[1], b[2])
    \/ \E o \in Objects, b \in RealBounds : RandomNextDouble(o, b[1], b[2])
    \/ \E o \in Objects : RandomNextDouble0(o)
    \/ \E o \in Objects, k \in {"int", "double"}, n \in Lens :
          RandomFillInt(o, k, n, -2, 2)
    \/ \E o \in Objects, k \in {"int", "double"}, n \in Lens :
          RandomFillDouble(o, k, n, 0, RealScale)
    \/ \E o \in Objects, n \in Lens : RandomFillUnit(o, "double", n)
    \/ \E o \in Objects, n \in Lens : RandomShuffle(o, n)

\* ------------------------------------------ static-engine generation: claims
\* C3 (as claimed): two Random objects built with the same explicit seed give,
\* call for call, the same NextInt results, whatever other Random objects
\* exist or are used in between.
C3_SameSeedSameSequence ==
    \A a \in Objects, b \in Objects :
        (/\ objs[a].explicit /\ objs[b].explicit
         /\ objs[a].seed = objs[b].seed
         /\ out[a].ok /\ out[b].ok) =>
            \A i \in 1..Len(out[a].seq) :
                i <= Len(out[b].seq) => out[a].seq[i] = out[b].seq[i]

\* C5 (as claimed): NextDouble() returns the value NextDouble(0.0, 1.0) gives
\* from the same engine state, a value in [0,1], and leaves the engine as that
\* call leaves it.
C5_NextDoubleIsUnitDraw ==
    prev.op = "NextDouble0" =>
        LET d == RealDistribution(0, RealScale, prev.pre)
        IN  /\ prev.ret = <<d.val>>
            /\ 0 <= prev.ret[1] /\ prev.ret[1] <= RealScale
            /\ engine = d.eng

\* ============================================================ SharedRandom
\* class SharedRandom : public Random, over the same static engine and one
\* `static inline std::mutex _mutex`.  A call is a sequence of steps: wait for
\* the mutex (where the operation has a lock_guard), then one engine access
\* per draw, each a read of the engine followed by the write of its new
\* state, then the return, where the lock_guard's destructor unlocks.
Idle ==
    [op |-> "none", locks |-> FALSE, left |-> 0, min |-> 0, max |-> 0,
     kind |-> "int", n |-> 0, took |-> FALSE, ret |-> << >>]

PublicOps == {"Next", "NextInt", "NextDouble", "NextDouble0", "FillInt",
              "FillDouble", "FillUnit", "Shuffle"}

\* a thread enters a call: the constructors and NextDouble() go straight to
\* the engine, every other operation first constructs its lock_guard
Enter(t, call) ==
    /\ pc[t] = "idle"
    /\ calls < MaxSharedCalls
    /\ calls' = calls + 1
    /\ cur' = [cur EXCEPT ![t] = call]
    /\ pc' = [pc EXCEPT ![t] =
                CASE call.op = "SharedRandom" -> "seed"
                  [] call.locks -> "lock"
                  [] call.left > 0 -> "draw"
                  [] OTHER -> "exit"]
    /\ UNCHANGED <<engine, mutex, snap>>
    /\ UNCHANGED <<localVars, staticVars>>

\* SharedRandom() noexcept : Random() {}  ->  _engine.seed(_device())
SharedDefault(t) ==
    \E s \in Entropy : Enter(t, [Idle EXCEPT !.op = "SharedRandom", !.min = s])

\* SharedRandom(unsigned int seed) noexcept : Random(seed) {}
SharedSeeded(t, s) ==
    Enter(t, [Idle EXCEPT !.op = "SharedRandom", !.min = s])

\* unsigned int Next(unsigned int max): lock_guard; return Random::Next(max)
SharedNext(t, max) ==
    Enter(t, [Idle EXCEPT !.op = "Next", !.locks = TRUE, !.left = 1, !.max = max])

\* int NextInt(int min, int max): lock_guard; return Random::NextInt(min, max)
SharedNextInt(t, min, max) ==
    Enter(t, [Idle EXCEPT !.op = "NextInt", !.locks = TRUE, !.left = 1,
                          !.min = min, !.max = max])

\* double NextDouble(double min, double max): lock_guard;
\* return Random::NextDouble(min, max)
SharedNextDouble(t, min, max) ==
    Enter(t, [Idle EXCEPT !.op = "NextDouble", !.locks = TRUE, !.left = 1,
                          !.kind = "double", !.min = min, !.max = max])

\* double NextDouble() noexcept { Random::NextDouble(0.0, 1.0); }
\* no lock_guard, and no return statement
SharedNextDouble0(t) ==
    Enter(t, [Idle EXCEPT !.op = "NextDouble0", !.locks = FALSE, !.left = 1,
                          !.kind = "double", !.max = RealScale])

\* void Fill(range, int min, int max): lock_guard; Random::Fill(range, min, max)
SharedFillInt(t, n, min, max) ==
    Enter(t, [Idle EXCEPT !.op = "FillInt", !.locks = TRUE, !.left = n, !.n = n,
                          !.min = min, !.max = max])

\* void Fill(range, double min, double max): lock_guard; Random::Fill(...)
SharedFillDouble(t, n, min, max) ==
    Enter(t, [Idle EXCEPT !.op = "FillDouble", !.locks = TRUE, !.left = n, !.n = n,
                          !.kind = "double", !.min = min, !.max = max])

\* void Fill(range): lock_guard; Random::Fill(range)
SharedFillUnit(t, n) ==
    Enter(t, [Idle EXCEPT !.op = "FillUnit", !.locks = TRUE, !.left = n, !.n = n,
                          !.kind = "double", !.max = RealScale])

\* void Shuffle(range): lock_guard; Random::Shuffle(range)
SharedShuffle(t, n) ==
    Enter(t, [Idle EXCEPT !.op = "Shuffle", !.locks = TRUE,
                          !.left = IF n > 1 THEN n - 1 ELSE 0, !.n = n,
                          !.ret = Iota(n)])

\* std::lock_guard<std::mutex> lock(_mutex): blocks until the mutex is free
Lock(t) ==
    /\ pc[t] = "lock"
    /\ mutex = 0
    /\ mutex' = t
    /\ cur' = [cur EXCEPT ![t].took = TRUE]
    /\ pc' = [pc EXCEPT ![t] = IF cur[t].left > 0 THEN "draw" ELSE "exit"]
    /\ UNCHANGED <<engine, snap, calls>>
    /\ UNCHANGED <<localVars, staticVars>>

\* _engine.seed(...) of a constructor: the write that ends the access
SeedEngine(t) ==
    /\ pc[t] = "seed"
    /\ engine' = Seed(cur[t].min)
    /\ pc' = [pc EXCEPT ![t] = "exit"]
    /\ UNCHANGED <<mutex, cur, snap, calls>>
    /\ UNCHANGED <<localVars, staticVars>>

\* a draw begins: the distribution reads the engine
BeginDraw(t) ==
    /\ pc[t] = "draw"
    /\ snap' = [snap EXCEPT ![t] = engine]
    /\ pc' = [pc EXCEPT ![t] = "in"]
    /\ UNCHANGED <<engine, mutex, cur, calls>>
    /\ UNCHANGED <<localVars, staticVars>>

\* the distribution a call applies to the engine state `e` it has read
DrawOf(c, e) ==
    CASE c.op = "Next" -> IntDistribution(0, ToInt(c.max), e)
      [] c.op \in {"NextInt", "FillInt"} -> IntDistribution(c.min, c.max, e)
      [] c.op \in {"NextDouble", "FillDouble"} -> RealDistribution(c.min, c.max, e)
      [] c.op = "Shuffle" -> IntDistribution(0, c.n - c.left, e)
      [] OTHER -> RealDistribution(0, RealScale, e)

\* a draw ends: the engine's new state is written back and the value lands in
\* the call's result (NextDouble() drops it: what it returns is undefined)
EndDraw(t) ==
    /\ pc[t] = "in"
    /\ LET c == cur[t]
           d == DrawOf(c, snap[t])
       IN  /\ engine' = d.eng
           /\ \E r \in (IF c.op = "NextDouble0" THEN DoubleVals ELSE {d.val}) :
                cur' = [cur EXCEPT ![t].left = c.left - 1,
                                   ![t].ret =
                                      IF c.op = "Shuffle"
                                      THEN Swap(c.ret, (c.n - c.left) + 1, r + 1)
                                      ELSE Append(c.ret, r)]
           /\ pc' = [pc EXCEPT ![t] = IF c.left > 1 THEN "draw" ELSE "exit"]
    /\ UNCHANGED <<mutex, snap, calls>>
    /\ UNCHANGED <<localVars, staticVars>>

\* the call returns; a lock_guard, where there is one, unlocks
Return(t) ==
    /\ pc[t] = "exit"
    /\ mutex' = IF cur[t].locks THEN 0 ELSE mutex
    /\ pc' = [pc EXCEPT ![t] = "idle"]
    /\ UNCHANGED <<engine, cur, snap, calls>>
    /\ UNCHANGED <<localVars, staticVars>>

NextShared ==
    \/ \E t \in Threads : SharedDefault(t)
    \/ \E t \in Threads, s \in Seeds : SharedSeeded(t, s)
    \/ \E t \in Threads : SharedNext(t, IntMax - 2)
    \/ \E t \in Threads : SharedNextInt(t, 1, IntMax - 1)
    \/ \E t \in Threads : SharedNextDouble(t, 0, RealScale)
    \/ \E t \in Threads : SharedNextDouble0(t)
    \/ \E t \in Threads, n \in {0, MaxLen} : SharedFillInt(t, n, -2, 2)
    \/ \E t \in Threads : SharedFillDouble(t, MaxLen, -1, 1)
    \/ \E t \in Threads : SharedFillUnit(t, MaxLen)
    \/ \E t \in Threads, n \in {1, MaxLen + 1} : SharedShuffle(t, n)
    \/ \E t \in Threads : Lock(t)
    \/ \E t \in Threads : SeedEngine(t)
    \/ \E t \in Threads : BeginDraw(t)
    \/ \E t \in Threads : EndDraw(t)
    \/ \E t \in Threads : Return(t)

\* ------------------------------------------------------ SharedRandom: claims
\* C1 (as claimed): every public operation of SharedRandom holds the mutex
\* from before its first engine access until after its last, and no longer
\* holds it once it has returned.
C1_OperationsHoldMutex ==
    \A t \in Threads :
        /\ (cur[t].op \in PublicOps /\ pc[t] \in {"draw", "in", "exit"}) => mutex = t
        /\ pc[t] = "idle" => mutex # t

\* C2 (as claimed): with the engine used through SharedRandom objects only, at
\* most one thread at a time is inside a seeding of the engine or a draw
\* from it.
C2_OneThreadInEngine ==
    Cardinality({t \in Threads : pc[t] \in {"seed", "in"}}) <= 1

\* C10 (as claimed): no operation waits for the mutex while its own thread
\* holds it, and every call of an operation that has returned did acquire the
\* mutex on its way and has released it.
C10_EveryCallLocksAndReturns ==
    \A t \in Threads :
        /\ pc[t] = "lock" => mutex # t
        /\ (pc[t] = "idle" /\ cur[t].op \in PublicOps) =>
              (cur[t].took /\ mutex # t)

\* Part of C10 that the code does satisfy: a call never stays inside an
\* operation for ever (checked under FairShared).
EveryCallReturns == \A t \in Threads : (pc[t] # "idle") ~> (pc[t] = "idle")

\* Part of C10 that the code does satisfy: the mutex is never requested by the
\* thread that owns it, and its owner is always inside a locked operation.
NoNestedAcquisition ==
    \A t \in Threads :
        /\ pc[t] = "lock" => mutex # t
        /\ mutex = t => (cur[t].locks /\ pc[t] \in {"draw", "in", "exit"})

InitLocal ==
    /\ tlEngine = [t \in Threads |-> DefaultLocalEngine]
    /\ tlSeeded = [t \in Threads |-> FALSE]
    /\ built = 0
    /\ last = NoCall

InitStatic ==
    /\ engine = DefaultEngine
    /\ objs = << >>
    /\ out = [o \in 1..MaxObjs |-> [ok |-> TRUE, seq |-> << >>]]
    /\ prev = NoCall

InitShared ==
    /\ mutex = 0
    /\ pc = [t \in Threads |-> "idle"]
    /\ cur = [t \in Threads |-> Idle]
    /\ snap = [t \in Threads |-> 0]

Init == InitLocal /\ InitStatic /\ InitShared /\ calls = 0

SpecLocal == Init /\ [][NextLocal]_vars

SpecFn == Init /\ [][NextFn]_vars

SpecStatic == Init /\ [][NextStatic]_vars

SpecShared == Init /\ [][NextShared]_vars

\* the scheduler runs every thread that can take a step, and a thread waiting
\* for the mutex gets it if it is free again and again
FairShared ==
    /\ SpecShared
    /\ \A t \in Threads :
        /\ WF_vars(SeedEngine(t) \/ BeginDraw(t) \/ EndDraw(t) \/ Return(t))
        /\ SF_vars(Lock(t))

====
